---- MODULE Spec2Model ----
(***************************************************************************)
(* Model of scripts/data_ingestion.py: main() acquires a CSV, reads it in  *)
(* chunks, cleans each chunk (clean_chunk), maps its columns to the        *)
(* destination schema and inserts it in sub-batches (chunk_and_insert),    *)
(* then runs verify_counts_and_aggregates.                                 *)
(***************************************************************************)
EXTENDS Integers, Sequences, FiniteSets, TLC

(* ---------------------------------------------------------------- bounds *)
\* longest source file, in data rows
MaxRows == 3
\* largest --chunksize and --batch-size drawn
MaxSize == 2
\* longest chunk handed to clean_chunk on its own (SpecClean)
MaxCleanRows == 1

(* ----------------------------------------------------------- cell values *)
\* A DataFrame cell: a string as read from the CSV, a number, a parsed
\* timestamp (minutes since 2021-01-01T00:00), or one of the null markers.
Str(s) == [k |-> "str", s |-> s, n |-> 0]
Num(n) == [k |-> "num", s |-> "", n |-> n]
Ts(n) == [k |-> "ts", s |-> "", n |-> n]
NaN == [k |-> "nan", s |-> "", n |-> 0]
NaT == [k |-> "nat", s |-> "", n |-> 0]
None == [k |-> "none", s |-> "", n |-> 0]

\* pandas isna(): NaN, NaT and None are all "missing"
IsNull(c) == c.k \in {"nan", "nat", "none"}

\* pd.to_datetime(x, errors='coerce') on one cell
to_datetime(c) ==
    CASE c.k = "str" ->
           (CASE c.s = "2021-01-01T00:00" -> Ts(0)
              [] c.s = "2021-01-01T00:10" -> Ts(10)
              [] c.s = "2021-01-01T01:00" -> Ts(60)
              [] c.s = "2021-01-01T01:05" -> Ts(65)
              [] OTHER -> NaT)
      [] c.k = "ts" -> c
      [] c.k = "num" -> Ts(c.n)
      [] OTHER -> NaT

\* pd.to_numeric(x, errors='coerce') on one cell
to_numeric(c) ==
    CASE c.k = "num" -> c
      [] c.k = "str" ->
           (CASE c.s = "-5" -> Num(-5)
              [] c.s = "-1" -> Num(-1)
              [] c.s = "0" -> Num(0)
              [] c.s = "1" -> Num(1)
              [] c.s = "10" -> Num(10)
              [] OTHER -> NaN)
      [] OTHER -> NaN

(* ------------------------------------------------------------ DataFrames *)
\* A DataFrame: cols is the column index (a sequence of names), rows a
\* sequence of [id, v]: id is the row's label in the frame's index (its
\* position in the source file), v the cells, aligned with cols.
HasCol(df, c) == \E p \in 1..Len(df.cols) : df.cols[p] = c

ColPos(df, c) == CHOOSE p \in 1..Len(df.cols) :
                    /\ df.cols[p] = c
                    /\ \A q \in 1..(p - 1) : df.cols[q] # c

Cell(df, r, c) == r.v[ColPos(df, c)]

\* df[c] = pd.to_datetime(df[c]) / pd.to_numeric(df[c]) when c is a
\* column of df
Conv(kind, c) == IF kind = "datetime" THEN to_datetime(c) ELSE to_numeric(c)

ConvCol(df, c, kind) ==
    IF ~HasCol(df, c) THEN df
    ELSE [df EXCEPT !.rows =
            [x \in 1..Len(df.rows) |->
                [df.rows[x] EXCEPT !.v =
                    [p \in 1..Len(df.cols) |->
                        IF df.cols[p] = c THEN Conv(kind, df.rows[x].v[p])
                        ELSE df.rows[x].v[p]]]]]

DateCols == <<"pickup_datetime", "dropoff_datetime">>
NumCols == <<"passenger_count", "trip_distance", "fare_amount", "tip_amount", "total_amount">>
FilterCols == <<"fare_amount", "trip_distance", "passenger_count">>

SeqRange(s) == {s[x] : x \in 1..Len(s)}

RECURSIVE ParseDates(_, _)
ParseDates(df, n) ==
    IF n = 0 THEN df
    ELSE ConvCol(ParseDates(df, n - 1), DateCols[n], "datetime")

RECURSIVE ParseNums(_, _)
ParseNums(df, n) ==
    IF n = 0 THEN df
    ELSE ConvCol(ParseNums(df, n - 1), NumCols[n], "numeric")

\* df.dropna(subset=[pickup_datetime, dropoff_datetime], how='any') keeps
\* the rows where neither is missing
DropnaKeepsMutant(df, r) == ~IsNull(Cell(df, r, "pickup_datetime"))

DropnaKeeps(df, r) == \A c \in SeqRange(DateCols) : ~IsNull(Cell(df, r, c))

\* df[c].fillna(0) >= 0
FillnaGe0Mutant(c) == c.k = "num" /\ c.n >= 0

FillnaGe0(c) == IF IsNull(c) THEN 0 >= 0 ELSE c.k = "num" /\ c.n >= 0

NonNegKeepsMutant(df, r) ==
    /\ FillnaGe0(Cell(df, r, "fare_amount"))
    /\ FillnaGe0(Cell(df, r, "trip_distance"))

NonNegKeeps(df, r) == \A c \in SeqRange(FilterCols) : FillnaGe0(Cell(df, r, c))

\* clean_chunk raises KeyError when a column it indexes unconditionally
\* (dropna subset, the boolean mask) is not in the frame
CleanRaises(df) ==
    \E c \in SeqRange(DateCols) \cup SeqRange(FilterCols) : ~HasCol(df, c)

clean_chunk(df) ==
    LET parsed == ParseNums(ParseDates(df, Len(DateCols)), Len(NumCols))
        kept1 == SelectSeq(parsed.rows, LAMBDA r : DropnaKeeps(parsed, r))
        kept2 == SelectSeq(kept1, LAMBDA r : NonNegKeeps(parsed, r))
    IN  [parsed EXCEPT !.rows = kept2]

(* ---------------------------------------------------------- Schema Mapper *)
\* col_map built at lines 81-87 and applied by chunk.rename(columns=col_map)
ColMapName(c) ==
    CASE c = "lpep_pickup_datetime" -> "pickup_datetime"
      [] c = "lpep_dropoff_datetime" -> "dropoff_datetime"
      [] OTHER -> c

allowed == {"vendorid", "vendor_id", "pickup_datetime", "dropoff_datetime",
            "passenger_count", "trip_distance", "rate_code", "store_and_fwd_flag",
            "PULocationID", "DOLocationID", "payment_type", "fare_amount", "extra",
            "mta_tax", "tip_amount", "tolls_amount", "total_amount"}

\* df.rename(columns={vendorid, vendor, VendorID -> vendor_id})
VendorVariants == {"vendorid", "vendor", "VendorID"}

NormalizeName(c) == IF c \in VendorVariants THEN "vendor_id" ELSE c

RenameCols(cols, which) ==
    [p \in 1..Len(cols) |->
        IF which = "col_map" THEN ColMapName(cols[p]) ELSE NormalizeName(cols[p])]

\* present = [c for c in chunk.columns if c in allowed]
Present(cols) == SelectSeq(cols, LAMBDA c : c \in allowed)

\* chunk[present]: for each label of present, in order, every column of the
\* chunk that carries it
RECURSIVE PositionsOf(_, _, _)
PositionsOf(cols, c, p) ==
    IF p > Len(cols) THEN <<>>
    ELSE (IF cols[p] = c THEN <<p>> ELSE <<>>) \o PositionsOf(cols, c, p + 1)

RECURSIVE SelectPositions(_, _, _)
SelectPositions(cols, present, n) ==
    IF n > Len(present) THEN <<>>
    ELSE PositionsOf(cols, present[n], 1) \o SelectPositions(cols, present, n + 1)

\* df.replace({pd.NaT: None})
ReplaceNaT(c) == IF c.k = "nat" THEN None ELSE c

\* lines 81-96: the frame handed to the loader
MapChunk(chunk) ==
    LET cols1 == RenameCols(chunk.cols, "col_map")
        pos == SelectPositions(cols1, Present(cols1), 1)
        cols2 == [q \in 1..Len(pos) |-> cols1[pos[q]]]
    IN  [cols |-> RenameCols(cols2, "normalize"),
         rows |-> [x \in 1..Len(chunk.rows) |->
                     [id |-> chunk.rows[x].id,
                      v |-> [q \in 1..Len(pos) |-> ReplaceNaT(chunk.rows[x].v[pos[q]])]]]]

\* records = df.to_dict(orient='records'); tuple(r.get(k) for k in keys):
\* a dict keeps one value per label, the last column's
LastPos(cols, c) == CHOOSE p \in 1..Len(cols) :
                       /\ cols[p] = c
                       /\ \A q \in (p + 1)..Len(cols) : cols[q] # c

RecordValues(df, r) == [q \in 1..Len(df.cols) |-> r.v[LastPos(df.cols, df.cols[q])]]

HasDuplicates(keys) == \E p, q \in 1..Len(keys) : p # q /\ keys[p] = keys[q]

(* ------------------------------------------------------------------ inputs *)
\* Source headers: the canonical names, the green-taxi names of DEFAULT_URL,
\* the VendorID spelling, and a file carrying both vendorid and vendor_id.
\* Cells of a row, in order: vendor, pickup, dropoff, passenger, trip
\* distance, fare, tip, total (last column).
HeaderCanonical == <<"vendor_id", "pickup_datetime", "dropoff_datetime", "passenger_count",
                     "trip_distance", "fare_amount", "tip_amount", "total_amount">>
HeaderGreen == <<"VendorID", "lpep_pickup_datetime", "lpep_dropoff_datetime", "passenger_count",
                 "trip_distance", "fare_amount", "tip_amount", "total_amount">>
HeaderVendorID == <<"VendorID", "pickup_datetime", "dropoff_datetime", "passenger_count",
                    "trip_distance", "fare_amount", "tip_amount", "total_amount">>
HeaderBothVendor == <<"vendorid", "pickup_datetime", "dropoff_datetime", "passenger_count",
                      "trip_distance", "fare_amount", "tip_amount", "vendor_id">>
Headers == {HeaderCanonical, HeaderGreen, HeaderVendorID, HeaderBothVendor}

\* The three rows of the specification's cleaning scenario: a negative fare,
\* an unparseable pickup, a valid row.
RowNegativeFare == <<Num(1), Str("2021-01-01T00:00"), Str("2021-01-01T00:10"),
                     Num(1), Num(2), Num(-5), Num(0), Num(1)>>
RowBadPickup == <<Num(1), Str("bad-date"), Str("2021-01-01T00:10"),
                  Num(1), Num(3), Num(10), Num(1), Num(11)>>
RowValid == <<Num(2), Str("2021-01-01T01:00"), Str("2021-01-01T01:05"),
              Num(1), Num(1), Num(12), Num(2), Num(14)>>
RowPool == {RowNegativeFare, RowBadPickup, RowValid}

Sources == {[cols |-> h, rows |-> [x \in DOMAIN f |-> [id |-> x, v |-> f[x]]]] :
                h \in Headers, f \in UNION {[1..m -> RowPool] : m \in 0..MaxRows}}

(* ------------------------------------------------------------------- state *)
VARIABLES
    args,        \* parsed command line: file, no_download, chunksize, batch_size
    source,      \* the CSV behind --url / --file: header and data rows
    fs0,         \* the paths that existed before the run
    fs,          \* the paths that exist now ("override": --file, "tmp": tmpfile)
    created,     \* this run's download created the staging file (it did not exist)
    pc,          \* position in main / chunk_and_insert
    tmpfile,     \* main's tmpfile is not None
    csv_path,    \* main's csv_path
    i,           \* chunk index of the enumerate() loop
    df,          \* the mapped frame of the chunk being loaded
    j,           \* sub-batch offset of range(0, len(records), batch_size)
    inserted,    \* chunk_and_insert's inserted
    total_rows,  \* chunk_and_insert's total_rows
    open_conns,  \* connections obtained from the engine and not closed
    opened,      \* connections obtained from the engine so far
    table,       \* committed rows of trips_raw: [id, keys, values]
    log,         \* history: one entry per chunk that left the loop body
    exc,         \* the exception propagating out of main's try block
    cnt,         \* verify_counts_and_aggregates' cnt (-1: not computed)
    exit_status, \* the process exit status (-1: still running)
    verified,    \* calls of verify_counts_and_aggregates so far
    run,         \* which invocation of the script this is (1 or 2)
    run1,        \* what the first invocation left: rows in the table, clean or not
    ddl,         \* deploy_changes: the ddl_sql text each version is applied with
    ledger,      \* deploy_changes: the versions in schema_versions (committed)
    schema,      \* deploy_changes: the tables and indexes that exist in the database
    applied,     \* deploy_changes: per version, the calls of apply_version that returned True
    ncalls,      \* deploy_changes: calls of apply_version so far
    dcall,       \* deploy_changes: the last call of apply_version, before and after
    backups,     \* backup_script: the files <DB_NAME>_backup_*.sql in outdir
    clock,       \* backup_script: the UTC time, in seconds
    bcall        \* backup_script: the last call of make_backup, before and after

vars == <<args, source, fs0, fs, created, pc, tmpfile, csv_path, i, df, j, inserted,
          total_rows, open_conns, opened, table, log, exc, cnt, exit_status,
          verified, run, run1, ddl, ledger, schema, applied, ncalls, dcall,
          backups, clock, bcall>>

ingestVars == <<args, source, fs0, fs, created, pc, tmpfile, csv_path, i, df, j, inserted,
                total_rows, open_conns, opened, table, log, exc, cnt, exit_status,
                verified, run, run1>>

deployVars == <<ddl, ledger, schema, applied, ncalls, dcall>>

backupVars == <<backups, clock, bcall>>

\* what no step of a single invocation of data_ingestion.py changes
rest == <<run, run1, deployVars, backupVars>>

\* the version keys apply_version is called with: the one main knows and another
Versions == {"v1_add_summary_table", "v2"}

NoCall == [version |-> "none", lookup |-> "none", recorded |-> FALSE, failAt |-> -1,
           executed |-> <<>>, result |-> "none", ledger0 |-> {}, schema0 |-> {}]

\* deploy_changes.py is not running
DeployIdle ==
    /\ ddl = [v \in Versions |-> <<>>]
    /\ ledger = {}
    /\ schema = {}
    /\ applied = [v \in Versions |-> 0]
    /\ ncalls = 0
    /\ dcall = NoCall

NoBackup == [keep |-> 0, name |-> <<>>, outcome |-> "none", returned |-> FALSE,
             before |-> {}, written |-> {}, removed |-> {}, failed |-> {}]

\* backup_script.py is not running
BackupIdle ==
    /\ backups = {}
    /\ clock = 0
    /\ bcall = NoBackup

NoRun == [rows |-> 0, clean |-> FALSE]

EmptyFrame == [cols |-> <<>>, rows |-> <<>>]

Init ==
    /\ args \in [file : BOOLEAN, no_download : BOOLEAN,
                 chunksize : 1..MaxSize, batch_size : 1..MaxSize]
    /\ source \in Sources
    /\ fs0 \in {({"override"} \cap (IF args.file THEN {"override"} ELSE {})) \cup t :
                    t \in SUBSET {"tmp"}}
    /\ fs = fs0
    /\ created = FALSE
    /\ pc = "start"
    /\ tmpfile = FALSE
    /\ csv_path = "unset"
    /\ i = 0
    /\ df = EmptyFrame
    /\ j = 0
    /\ inserted = 0
    /\ total_rows = 0
    /\ open_conns = 0
    /\ opened = 0
    /\ table = <<>>
    /\ log = <<>>
    /\ exc = "none"
    /\ cnt = -1
    /\ exit_status = -1
    /\ verified = 0
    /\ run = 1
    /\ run1 = NoRun
    /\ DeployIdle
    /\ BackupIdle

(* ------------------------------------------------------------------- main *)
Min(a, b) == IF a < b THEN a ELSE b

\* lines 154-163, up to the call of stream_download
Start ==
    /\ pc = "start"
    /\ IF args.file
       THEN /\ csv_path' = "override"
            /\ pc' = "read"
            /\ UNCHANGED tmpfile
       ELSE /\ tmpfile' = TRUE
            /\ IF args.no_download
               THEN csv_path' = "tmp" /\ pc' = "read"
               ELSE pc' = "download" /\ UNCHANGED csv_path
    /\ UNCHANGED <<rest, verified, args, source, fs0, fs, created, i, df, j, inserted, total_rows,
                   open_conns, opened, table, log, exc, cnt, exit_status>>

\* lines 158-163: main has no handler around stream_download, so an exception
\* from it skips chunk_and_insert and the verifier and reaches the finally block
AfterDownloadMutant(outcome) == "read"

AfterDownload(outcome) == IF outcome = "ok" THEN "read" ELSE "finally"

\* stream_download: urlopen may raise before the staging file is opened,
\* the copy loop may raise after it was opened, or the copy completes
Download ==
    /\ pc = "download"
    /\ \E outcome \in {"urlopen_fails", "copy_fails", "ok"} :
          /\ fs' = IF outcome = "urlopen_fails" THEN fs ELSE fs \cup {"tmp"}
          /\ created' = (outcome # "urlopen_fails" /\ "tmp" \notin fs)
          /\ pc' = AfterDownload(outcome)
          /\ IF outcome = "ok"
             THEN csv_path' = "tmp" /\ UNCHANGED exc
             ELSE exc' = "acquisition" /\ UNCHANGED csv_path
    /\ UNCHANGED <<rest, verified, args, source, fs0, tmpfile, i, df, j, inserted, total_rows,
                   open_conns, opened, table, log, cnt, exit_status>>

(* -------------------------------------------------------- chunk_and_insert *)
\* pd.read_csv(file_path, chunksize=chunksize): the i-th chunk of the file
NumRows == Len(source.rows)

ChunkAvailableMutant == i * args.chunksize < NumRows - 1

\* line 72: the reader yields a chunk while rows are left
ChunkAvailable == i * args.chunksize < NumRows

Chunk == [cols |-> source.cols,
          rows |-> SubSeq(source.rows, i * args.chunksize + 1,
                          Min((i + 1) * args.chunksize, NumRows))]

\* line 72: pd.read_csv raises FileNotFoundError when the path does not exist
OpenCsvFails ==
    /\ pc = "read"
    /\ csv_path \notin fs
    /\ exc' = "file_not_found"
    /\ pc' = "finally"
    /\ UNCHANGED <<rest, verified, args, source, fs0, fs, created, tmpfile, csv_path, i, df, j, inserted,
                   total_rows, open_conns, opened, table, log, cnt, exit_status>>

\* line 75: clean_chunk raises KeyError, which nothing in chunk_and_insert catches
ChunkCleanRaises ==
    /\ pc = "read"
    /\ csv_path \in fs
    /\ ChunkAvailable
    /\ CleanRaises(Chunk)
    /\ exc' = "KeyError"
    /\ pc' = "finally"
    /\ UNCHANGED <<rest, verified, args, source, fs0, fs, created, tmpfile, csv_path, i, df, j, inserted,
                   total_rows, open_conns, opened, table, log, cnt, exit_status>>

\* line 77: if cleaned_len == 0
SkipChunkMutant(cleaned_len) == FALSE

SkipChunk(cleaned_len) == cleaned_len = 0

\* lines 76-79: the cleaned chunk is empty: continue
ChunkSkipped ==
    /\ pc = "read"
    /\ csv_path \in fs
    /\ ChunkAvailable
    /\ ~CleanRaises(Chunk)
    /\ SkipChunk(Len(clean_chunk(Chunk).rows))
    /\ i' = i + 1
    /\ log' = Append(log, [chunk |-> i, read |-> Len(Chunk.rows), cleaned |-> 0,
                           ids |-> <<>>, skipped |-> TRUE, attempted |-> {},
                           committed |-> {}, failed |-> {}, closed |-> TRUE])
    /\ UNCHANGED <<rest, verified, args, source, fs0, fs, created, pc, tmpfile, csv_path, df, j, inserted,
                   total_rows, open_conns, opened, table, exc, cnt, exit_status>>

\* lines 80-105: map the cleaned chunk and obtain a connection and a cursor
ChunkBegin ==
    /\ pc = "read"
    /\ csv_path \in fs
    /\ ChunkAvailable
    /\ ~CleanRaises(Chunk)
    /\ ~SkipChunk(Len(clean_chunk(Chunk).rows))
    /\ \E connected \in BOOLEAN :
          IF connected
          THEN /\ df' = MapChunk(clean_chunk(Chunk))
               /\ j' = 0
               /\ inserted' = 0
               /\ open_conns' = open_conns + 1
               /\ opened' = opened + 1
               /\ pc' = "batch"
               /\ UNCHANGED exc
          ELSE /\ exc' = "connect"
               /\ pc' = "finally"
               /\ UNCHANGED <<df, j, inserted, open_conns, opened>>
    /\ UNCHANGED <<rest, verified, args, source, fs0, fs, created, tmpfile, csv_path, i, total_rows,
                   table, log, cnt, exit_status>>

\* the offsets range(0, len(records), batch_size) visits
Offsets(n, batch_size) == {o \in 0..(n - 1) : o % batch_size = 0}

Batch == SubSeq(df.rows, j + 1, Min(j + args.batch_size, Len(df.rows)))

\* the rows the INSERT of line 105 and the values of line 111 write
InsertRows(batch) ==
    [x \in 1..Len(batch) |->
        [id |-> batch[x].id, keys |-> df.cols, values |-> RecordValues(df, batch[x])]]

\* MySQL rejects an INSERT whose column list names a column twice
Outcomes == IF HasDuplicates(df.cols) THEN {"execute_fails"}
            ELSE {"ok", "execute_fails", "commit_fails"}

\* lines 112-114: inserted grows only when executemany and commit returned
InsertedAfterMutant(n, batch, outcome) == n + Len(batch)

InsertedAfter(n, batch, outcome) == IF outcome = "ok" THEN n + Len(batch) ELSE n

\* lines 112-113 and 120: the rows are in the table once commit returned;
\* the rollback of the handler discards them otherwise
TableAfterMutant(t, batch, outcome) ==
    LET IsNew(r) == \A x \in 1..Len(t) : t[x].id # r.id
    IN  IF outcome = "ok" THEN t \o SelectSeq(InsertRows(batch), IsNew) ELSE t

TableAfter(t, batch, outcome) == IF outcome = "ok" THEN t \o InsertRows(batch) ELSE t

CurrentEntry(attempted, committed, failed, closed) ==
    [chunk |-> i, read |-> Len(Chunk.rows), cleaned |-> Len(df.rows),
     ids |-> [x \in 1..Len(df.rows) |-> df.rows[x].id], skipped |-> FALSE,
     attempted |-> attempted, committed |-> committed, failed |-> failed, closed |-> closed]

\* history of the chunk being loaded: offsets below j were attempted and
\* committed (a failure leaves the loop)
DoneOffsets == {o \in Offsets(Len(df.rows), args.batch_size) : o < j}

\* lines 107-114 for one sub-batch, and lines 117-127 when it raised: the
\* handler rolls back and the loop body ends without closing cursor or
\* connection
SubBatch ==
    /\ pc = "batch"
    /\ j < Len(df.rows)
    /\ \E outcome \in Outcomes :
          /\ table' = TableAfter(table, Batch, outcome)
          /\ inserted' = InsertedAfter(inserted, Batch, outcome)
          /\ IF outcome = "ok"
             THEN /\ j' = j + args.batch_size
                  /\ UNCHANGED <<pc, i, total_rows, log>>
             ELSE /\ total_rows' = total_rows + inserted'
                  /\ log' = Append(log, CurrentEntry(DoneOffsets \cup {j}, DoneOffsets, {j}, FALSE))
                  /\ i' = i + 1
                  /\ pc' = "read"
                  /\ UNCHANGED j
    /\ UNCHANGED <<rest, verified, args, source, fs0, fs, created, tmpfile, csv_path, df, open_conns,
                   opened, exc, cnt, exit_status>>

\* lines 115-116 and 123-127: the loop over the sub-batches ended normally
ChunkDone ==
    /\ pc = "batch"
    /\ j >= Len(df.rows)
    /\ open_conns' = open_conns - 1
    /\ total_rows' = total_rows + inserted
    /\ log' = Append(log, CurrentEntry(DoneOffsets, DoneOffsets, {}, TRUE))
    /\ i' = i + 1
    /\ pc' = "read"
    /\ UNCHANGED <<rest, verified, args, source, fs0, fs, created, tmpfile, csv_path, df, j, inserted,
                   opened, table, exc, cnt, exit_status>>

\* lines 128-130: the reader is exhausted, chunk_and_insert returns total_rows
LoadReturns ==
    /\ pc = "read"
    /\ csv_path \in fs
    /\ ~ChunkAvailable
    /\ pc' = "verify"
    /\ UNCHANGED <<rest, verified, args, source, fs0, fs, created, tmpfile, csv_path, i, df, j, inserted,
                   total_rows, open_conns, opened, table, log, exc, cnt, exit_status>>

(* ----------------------------------------------- verify_counts_and_aggregates *)
\* connect_db exits the process on a connection error; a failing query
\* propagates after the finally block closed cursor and connection
Verify ==
    /\ pc = "verify"
    /\ \E outcome \in {"connect_fails", "query_fails", "ok"} :
          /\ cnt' = IF outcome = "ok" THEN Len(table) ELSE cnt
          /\ exc' = CASE outcome = "connect_fails" -> "SystemExit"
                      [] outcome = "query_fails" -> "verify_query"
                      [] OTHER -> exc
    /\ verified' = verified + 1
    /\ pc' = "finally"
    /\ UNCHANGED <<rest, args, source, fs0, fs, created, tmpfile, csv_path, i, df, j, inserted,
                   total_rows, open_conns, opened, table, log, exit_status>>

\* lines 168-173, then the interpreter ends the process: status 0 when no
\* exception left main, 1 otherwise
Finally ==
    /\ pc = "finally"
    /\ fs' = IF tmpfile /\ "tmp" \in fs THEN fs \ {"tmp"} ELSE fs
    /\ exit_status' = IF exc = "none" THEN 0 ELSE 1
    /\ pc' = "done"
    /\ UNCHANGED <<rest, verified, args, source, fs0, created, tmpfile, csv_path, i, df, j, inserted,
                   total_rows, open_conns, opened, table, log, exc, cnt>>

Next ==
    \/ Start
    \/ Download
    \/ OpenCsvFails
    \/ ChunkCleanRaises
    \/ ChunkSkipped
    \/ ChunkBegin
    \/ SubBatch
    \/ ChunkDone
    \/ LoadReturns
    \/ Verify
    \/ Finally

Spec == Init /\ [][Next]_vars

(* ---------------------------------------------- the script invoked again *)
\* no sub-batch of this invocation failed and no exception left main
CleanRun == exc = "none" /\ \A n \in 1..Len(log) : log[n].failed = {}

\* A second invocation of the script with the same command line on the same
\* source: a new process starts main from its first line, the table and the
\* files are what the first invocation left (nothing in the script truncates
\* taxi_trips), and the connections of the ended process are gone.
Rerun ==
    /\ pc = "done"
    /\ run = 1
    /\ run' = 2
    /\ run1' = [rows |-> Len(table), clean |-> CleanRun]
    /\ fs0' = fs
    /\ created' = FALSE
    /\ pc' = "start"
    /\ tmpfile' = FALSE
    /\ csv_path' = "unset"
    /\ i' = 0
    /\ df' = EmptyFrame
    /\ j' = 0
    /\ inserted' = 0
    /\ total_rows' = 0
    /\ open_conns' = 0
    /\ opened' = 0
    /\ log' = <<>>
    /\ exc' = "none"
    /\ cnt' = -1
    /\ exit_status' = -1
    /\ verified' = 0
    /\ UNCHANGED <<args, source, fs, table, deployVars, backupVars>>

\* the sources of the two-run specification: the canonical header, and the
\* green-taxi one
InitTwice == Init /\ source.cols \in {HeaderCanonical, HeaderGreen}

NextTwice == Next \/ Rerun

SpecTwice == InitTwice /\ [][NextTwice]_vars

(* ------------------------------------------------------ deploy_changes.py *)
MaxCalls == 3

\* ddl_sql texts, token by token: ";" separates, " " is white space, "T" is
\* the CREATE TABLE IF NOT EXISTS daily_fare_summary statement of main and
\* "X" its CREATE INDEX IF NOT EXISTS ... ON daily_fare_summary statement
DdlSummary == <<" ", "T", ";", " ", "X", ";", " ">>

DdlPool == {DdlSummary, <<"X", ";", "T">>, <<"T", " ", ";", ";">>, <<" ">>}

\* str.split(';'): the pieces between the separators, empty ones included
RECURSIVE Split(_)
Split(sql) ==
    IF \A x \in 1..Len(sql) : sql[x] # ";"
    THEN <<sql>>
    ELSE LET p == CHOOSE x \in 1..Len(sql) :
                      sql[x] = ";" /\ \A y \in 1..(x - 1) : sql[y] # ";"
         IN  <<SubSeq(sql, 1, p - 1)>> \o Split(SubSeq(sql, p + 1, Len(sql)))

\* str.strip(): leading and trailing white space removed
RECURSIVE Strip(_)
Strip(piece) ==
    IF piece = <<>> THEN <<>>
    ELSE IF Head(piece) = " " THEN Strip(Tail(piece))
    ELSE IF piece[Len(piece)] = " " THEN Strip(SubSeq(piece, 1, Len(piece) - 1))
    ELSE piece

\* lines 47-50: the statements the loop hands to cur.execute
Statements(sql) ==
    LET pieces   == Split(sql)
        stripped == [x \in 1..Len(pieces) |-> Strip(pieces[x])]
        NotEmpty(piece) == piece # <<>>
    IN  SelectSeq(stripped, NotEmpty)

\* the server rejects a statement it cannot parse, and an index on a table
\* that does not exist
StmtFails(stmt, sch) ==
    CASE stmt = <<"T">> -> FALSE
      [] stmt = <<"X">> -> "daily_fare_summary" \notin sch
      [] OTHER -> TRUE

\* MySQL commits a CREATE TABLE / CREATE INDEX implicitly when it executes:
\* the object exists from then on, whatever the transaction does later
StmtEffect(stmt, sch) ==
    CASE stmt = <<"T">> -> sch \cup {"daily_fare_summary"}
      [] stmt = <<"X">> -> sch \cup {"idx_daily_summary_pu"}
      [] OTHER -> sch

\* lines 47-51: the loop up to the statement that raises (failAt names the
\* execute call the connection fails at: 1.. for the statements)
RECURSIVE RunStatements(_, _, _, _)
RunStatements(stmts, k, sch, failAt) ==
    IF k > Len(stmts) THEN [schema |-> sch, executed |-> k - 1, ok |-> TRUE]
    ELSE IF failAt = k \/ StmtFails(stmts[k], sch)
         THEN [schema |-> sch, executed |-> k - 1, ok |-> FALSE]
         ELSE RunStatements(stmts, k + 1, StmtEffect(stmts[k], sch), failAt)

\* line 41: the version is in the ledger
AlreadyAppliedMutant(version, versions) == FALSE

AlreadyApplied(version, versions) == version \in versions

\* line 52: version is the primary key of schema_versions
InsertFails(version, versions, n, failAt) == failAt = n + 1 \/ version \in versions

\* lines 29-38: outcomes of applied_versions, and the schema it leaves
Lookups == {"ok", "create_fails", "select_fails"}

AfterLookup(lookup, sch) ==
    IF lookup = "create_fails" THEN sch ELSE sch \cup {"schema_versions"}

\* apply_version(conn, version, ddl_sql, description) as a whole: the
\* result, the ledger and the schema it leaves, and what it executed
ApplyResult(version, lookup, failAt) ==
    LET stmts == Statements(ddl[version])
        n     == Len(stmts)
        sch1  == AfterLookup(lookup, schema)
        r     == RunStatements(stmts, 1, sch1, failAt)
        none  == [result |-> "False", ledger |-> ledger, schema |-> sch1, executed |-> <<>>]
    IN  IF lookup # "ok" THEN [none EXCEPT !.result = "raised"]
        ELSE IF AlreadyApplied(version, ledger) THEN none
        ELSE IF failAt = 0 THEN none
        ELSE IF ~r.ok \/ InsertFails(version, ledger, n, failAt) \/ failAt = n + 2
             THEN [result |-> "False", ledger |-> ledger, schema |-> r.schema,
                   executed |-> SubSeq(stmts, 1, r.executed)]
             ELSE [result |-> "True", ledger |-> ledger \cup {version}, schema |-> r.schema,
                   executed |-> stmts]

ApplyVersion ==
    /\ pc = "deploy"
    /\ ncalls < MaxCalls
    /\ \E version \in Versions, lookup \in Lookups :
       \E failAt \in -1..(Len(Statements(ddl[version])) + 2) :
          LET r == ApplyResult(version, lookup, failAt)
          IN  /\ ledger' = r.ledger
              /\ schema' = r.schema
              /\ applied' = [applied EXCEPT ![version] =
                                 IF r.result = "True" THEN @ + 1 ELSE @]
              /\ dcall' = [version |-> version, lookup |-> lookup,
                           recorded |-> version \in ledger, failAt |-> failAt,
                           executed |-> r.executed, result |-> r.result,
                           ledger0 |-> ledger, schema0 |-> schema]
    /\ ncalls' = ncalls + 1
    /\ UNCHANGED <<ingestVars, backupVars, ddl>>

\* data_ingestion.py is not running
IngestIdle ==
    /\ args = [file |-> FALSE, no_download |-> FALSE, chunksize |-> 1, batch_size |-> 1]
    /\ source = EmptyFrame
    /\ fs0 = {}
    /\ fs = {}
    /\ created = FALSE
    /\ tmpfile = FALSE
    /\ csv_path = "unset"
    /\ i = 0
    /\ df = EmptyFrame
    /\ j = 0
    /\ inserted = 0
    /\ total_rows = 0
    /\ open_conns = 0
    /\ opened = 0
    /\ table = <<>>
    /\ log = <<>>
    /\ exc = "none"
    /\ cnt = -1
    /\ exit_status = -1
    /\ verified = 0
    /\ run = 1
    /\ run1 = NoRun

InitDeploy ==
    /\ IngestIdle
    /\ BackupIdle
    /\ pc = "deploy"
    /\ ddl \in [Versions -> DdlPool]
    /\ ledger = {}
    /\ schema \in SUBSET {"schema_versions"}
    /\ applied = [v \in Versions |-> 0]
    /\ ncalls = 0
    /\ dcall = NoCall

NextDeploy == ApplyVersion

SpecDeploy == InitDeploy /\ [][NextDeploy]_vars

(* -------------------------------------------------------- backup_script.py *)
MaxTime == 2
MaxKeep == 2
Period == 2

\* line 25: strftime('%Y%m%dT%H%M%SZ') writes the time as fixed-width fields,
\* most significant first (two fields here, the second counting to Period)
Stamp(t) == <<t \div Period, t % Period>>

\* string comparison of two file names that differ only in the timestamp
LexLess(a, b) ==
    \E k \in 1..Len(a) : a[k] < b[k] /\ \A x \in 1..(k - 1) : a[x] = b[x]

\* line 44: sorted(glob.glob(...), reverse=True)
RECURSIVE SortDesc(_)
SortDesc(S) ==
    IF S = {} THEN <<>>
    ELSE LET m == CHOOSE f \in S : \A g \in S \ {f} : LexLess(g.name, f.name)
         IN  <<m>> \o SortDesc(S \ {m})

\* line 45: files[keep:]
FilesBeyondMutant(files, keep) == SubSeq(files, keep + 2, Len(files))

FilesBeyond(files, keep) == SubSeq(files, keep + 1, Len(files))

\* lines 29-41: what is at path after the dump: the dump, the placeholder
\* written when the mysqldump executable is missing, or what a mysqldump
\* that exited non-zero had written (CalledProcessError is not caught)
DumpOutcomes == {"ok", "missing", "dump_fails"}

KindWritten(outcome) ==
    CASE outcome = "ok" -> "dump"
      [] outcome = "missing" -> "placeholder"
      [] OTHER -> "partial"

\* open(path, 'wb') replaces a file of the same name
WriteFile(files, f) == {g \in files : g.name # f.name} \cup {f}

Range(seq) == {seq[x] : x \in 1..Len(seq)}

\* make_backup(outdir, keep) as a whole; os.remove may fail for any of the
\* old files, which line 49 reports and passes over
MakeBackup ==
    /\ pc = "backup"
    /\ \E keep \in 0..MaxKeep, t \in clock..MaxTime, outcome \in DumpOutcomes :
          LET f       == [name |-> Stamp(t), t |-> t, kind |-> KindWritten(outcome)]
              written == WriteFile(backups, f)
              old     == Range(FilesBeyond(SortDesc(written), keep))
              call    == [keep |-> keep, name |-> f.name, outcome |-> outcome,
                          before |-> backups, written |-> written]
          IN  /\ clock' = t
              /\ IF outcome = "dump_fails"
                 THEN /\ backups' = written
                      /\ bcall' = call @@ [returned |-> FALSE, removed |-> {}, failed |-> {}]
                 ELSE \E failed \in SUBSET old :
                      /\ backups' = written \ (old \ failed)
                      /\ bcall' = call @@ [returned |-> TRUE, removed |-> old \ failed,
                                           failed |-> failed]
    /\ UNCHANGED <<ingestVars, deployVars>>

InitBackup ==
    /\ IngestIdle
    /\ DeployIdle
    /\ pc = "backup"
    /\ backups = {}
    /\ clock = 0
    /\ bcall = NoBackup

NextBackup == MakeBackup

SpecBackup == InitBackup /\ [][NextBackup]_vars

(* ------------------------------------------------ clean_chunk on its own *)
\* Chunks for clean_chunk alone: every combination of a parseable or an
\* unusable value per cell, under a header with all columns, one without
\* tip_amount / total_amount, and the green-taxi header.
HeaderNoTips == <<"vendor_id", "pickup_datetime", "dropoff_datetime", "passenger_count",
                  "trip_distance", "fare_amount", "extra", "mta_tax">>

CleanRows ==
    {<<Num(1), pu, do, pc_, td, fa, tt[1], tt[2]>> :
        pu \in {Str("2021-01-01T00:00"), Str("bad-date")},
        do \in {Str("2021-01-01T00:10"), NaN},
        pc_ \in {Num(1), Str("-1"), Str("abc")},
        td \in {Num(2), Num(-1), NaN},
        fa \in {Str("10"), Num(-5), NaN},
        tt \in {<<Num(1), Num(11)>>, <<Num(-1), Str("-1")>>}}

\* a row whose fare_amount is missing and whose passenger_count is not a number
RowMissingFare == <<Num(1), Str("2021-01-01T00:00"), Str("2021-01-01T00:10"),
                    Str("abc"), Num(2), NaN, Num(1), Num(11)>>

\* short chunks over every combination of cells, and longer ones over the
\* rows of the ingestion sources and RowMissingFare
CleanInputs ==
    {[cols |-> h, rows |-> [x \in DOMAIN f |-> [id |-> x, v |-> f[x]]]] :
        h \in {HeaderCanonical, HeaderNoTips, HeaderGreen},
        f \in UNION {[1..m -> CleanRows] : m \in 0..MaxCleanRows}
              \cup UNION {[1..m -> RowPool \cup {RowMissingFare}] : m \in 2..MaxRows}}

InitClean ==
    /\ args = [file |-> TRUE, no_download |-> FALSE, chunksize |-> MaxCleanRows,
               batch_size |-> MaxCleanRows]
    /\ source \in CleanInputs
    /\ fs0 = {"override"}
    /\ fs = fs0
    /\ created = FALSE
    /\ pc = "clean_input"
    /\ tmpfile = FALSE
    /\ csv_path = "override"
    /\ i = 0
    /\ df = EmptyFrame
    /\ j = 0
    /\ inserted = 0
    /\ total_rows = 0
    /\ open_conns = 0
    /\ opened = 0
    /\ table = <<>>
    /\ log = <<>>
    /\ exc = "none"
    /\ cnt = -1
    /\ exit_status = -1
    /\ verified = 0
    /\ run = 1
    /\ run1 = NoRun
    /\ DeployIdle
    /\ BackupIdle

\* chunk = clean_chunk(chunk) on the whole source as one chunk: df holds the
\* frame it returns, exc the KeyError it raises
CleanOnly ==
    /\ pc = "clean_input"
    /\ IF CleanRaises(source)
       THEN exc' = "KeyError" /\ pc' = "clean_raised" /\ UNCHANGED df
       ELSE df' = clean_chunk(source) /\ pc' = "cleaned" /\ UNCHANGED exc
    /\ UNCHANGED <<rest, verified, args, source, fs0, fs, created, tmpfile, csv_path, i, j, inserted,
                   total_rows, open_conns, opened, table, log, cnt, exit_status>>

NextClean == CleanOnly

SpecClean == InitClean /\ [][NextClean]_vars

(* ------------------------------------------------------------------ claims *)
\* the rows of the sub-batch at offset o of a logged chunk
SubBatchSize(e, o) == Min(args.batch_size, e.cleaned - o)

SubBatchIds(e, o) == {e.ids[x] : x \in (o + 1)..(o + SubBatchSize(e, o))}

RECURSIVE SumSizes(_, _)
SumSizes(e, offsets) ==
    IF offsets = {} THEN 0
    ELSE LET o == CHOOSE x \in offsets : TRUE
         IN  SubBatchSize(e, o) + SumSizes(e, offsets \ {o})

RECURSIVE CommittedRows(_)
CommittedRows(n) ==
    IF n = 0 THEN 0 ELSE SumSizes(log[n], log[n].committed) + CommittedRows(n - 1)

TableIds == {table[t].id : t \in 1..Len(table)}

\* C1: when a sub-batch of a chunk fails, every later sub-batch of that chunk
\* is still attempted: each chunk that went through the loader had all the
\* offsets of range(0, len(records), batch_size) attempted.
C1_LaterSubBatchesAttempted ==
    \A n \in 1..Len(log) :
        ~log[n].skipped => log[n].attempted = Offsets(log[n].cleaned, args.batch_size)

\* C2: between chunks and after chunk_and_insert returned, total_rows is the
\* sum of the sizes of the committed sub-batches, the table holds that many
\* rows, and no row of a failed sub-batch is in the table.
C2_TotalIsCommittedRows ==
    pc # "batch" =>
        /\ total_rows = CommittedRows(Len(log))
        /\ Len(table) = CommittedRows(Len(log))
        /\ \A n \in 1..Len(log) : \A o \in log[n].failed :
              SubBatchIds(log[n], o) \cap TableIds = {}

\* C2 witness: the run ended after two chunks went through the loader, one
\* with a failed sub-batch and one with a committed sub-batch.
C2_Witness ==
    /\ pc = "done"
    /\ exc = "none"
    /\ \E m, n \in 1..Len(log) : log[m].failed # {} /\ log[n].committed # {}
    /\ total_rows > 0

\* a cell of the cleaned frame is missing or a number >= 0
MissingOrNonNegative(c) == c.k = "nan" \/ (c.k = "num" /\ c.n >= 0)

\* C3: every row clean_chunk returns has a parsed pickup and drop-off
\* timestamp, and its fare_amount, trip_distance and passenger_count are
\* each missing or >= 0.
C3_CleanedRowsValid ==
    pc = "cleaned" =>
        \A x \in 1..Len(df.rows) :
            /\ \A c \in SeqRange(DateCols) : Cell(df, df.rows[x], c).k = "ts"
            /\ \A c \in {"fare_amount", "trip_distance", "passenger_count"} :
                  MissingOrNonNegative(Cell(df, df.rows[x], c))

\* C3 witness: clean_chunk returned a row whose fare_amount is missing and
\* whose passenger_count was unparseable.
C3_Witness ==
    /\ pc = "cleaned"
    /\ Len(df.rows) = 1
    /\ Cell(df, df.rows[1], "fare_amount") = NaN
    /\ Cell(source, source.rows[1], "passenger_count") = Str("abc")
    /\ Cell(df, df.rows[1], "pickup_datetime") = Ts(0)

\* C4 as stated: no cleaned row has a negative value in any of the five
\* numeric columns, tip_amount and total_amount included.
C4_NoNegativeInFiveFields ==
    pc = "cleaned" =>
        \A x \in 1..Len(df.rows) : \A c \in SeqRange(NumCols) :
            HasCol(df, c) => MissingOrNonNegative(Cell(df, df.rows[x], c))

\* C4 amended: no cleaned row has a negative passenger_count, trip_distance
\* or fare_amount (each is missing or a number >= 0); tip_amount and
\* total_amount are, where the column exists, missing or a number of either
\* sign.
C4_NoNegativeInFilteredFields ==
    pc = "cleaned" =>
        \A x \in 1..Len(df.rows) :
            /\ \A c \in SeqRange(FilterCols) :
                  MissingOrNonNegative(Cell(df, df.rows[x], c))
            /\ \A c \in {"tip_amount", "total_amount"} :
                  HasCol(df, c) => Cell(df, df.rows[x], c).k \in {"nan", "num"}

\* C4 witness: clean_chunk returned a row with a negative tip_amount and a
\* negative total_amount parsed from text.
C4_Witness ==
    /\ pc = "cleaned"
    /\ Len(df.rows) = 1
    /\ HasCol(df, "tip_amount") /\ HasCol(df, "total_amount")
    /\ Cell(df, df.rows[1], "tip_amount") = Num(-1)
    /\ Cell(source, source.rows[1], "total_amount") = Str("-1")
    /\ Cell(df, df.rows[1], "total_amount") = Num(-1)

\* C5: when main has ended, the staging file is gone if this run created
\* it, and every path that existed before the run still exists.
C5_StagingFileCleanup ==
    pc = "done" =>
        /\ created => "tmp" \notin fs
        /\ \A f \in fs0 : f \in fs

\* the number of columns of a frame that carry the label c
CountCol(cols, c) == Cardinality({p \in 1..Len(cols) : cols[p] = c})

\* C6: the frame handed to the loader has only allow-listed, canonically
\* named columns; a vendor column of the source, under any of its known
\* names, arrives as exactly one vendor_id column; no label occurs twice.
C6_RecordsCanonical ==
    pc = "batch" =>
        /\ \A c \in SeqRange(df.cols) : c \in allowed \ VendorVariants
        /\ (\E c \in VendorVariants \cup {"vendor_id"} : HasCol(source, c))
              => CountCol(df.cols, "vendor_id") = 1
        /\ ~HasDuplicates(df.cols)

\* C7: a source that names the timestamp columns lpep_pickup_datetime and
\* lpep_dropoff_datetime is not aborted by the Cleaner.
C7_AlternateTimestampNames ==
    (HasCol(source, "lpep_pickup_datetime") /\ HasCol(source, "lpep_dropoff_datetime"))
        => exc # "KeyError"

\* the failures the specification calls fatal: acquisition, a missing
\* source file, the store not reachable
FatalCauses == {"acquisition", "file_not_found", "connect", "SystemExit"}

\* C8: main ends with a non-zero status only after an acquisition or a
\* configuration failure; a failing verification query does not make it do
\* so. (The KeyError of the Cleaner is the subject of C7 and left aside.)
C8_OnlyFatalErrorsFail ==
    (pc = "done" /\ exit_status # 0 /\ exc # "KeyError") => exc \in FatalCauses

\* C9: when the cleaned chunk is empty the step opens no connection, writes
\* nothing, leaves the totals alone, raises nothing and moves to the next
\* chunk.
C9_EmptyChunkSkipped ==
    [][(/\ pc = "read"
        /\ csv_path \in fs
        /\ ChunkAvailable
        /\ ~CleanRaises(Chunk)
        /\ Len(clean_chunk(Chunk).rows) = 0)
       => (/\ pc' = "read"
           /\ i' = i + 1
           /\ opened' = opened
           /\ open_conns' = open_conns
           /\ table' = table
           /\ inserted' = inserted
           /\ total_rows' = total_rows
           /\ exc' = "none")]_vars

\* C9 witness: a chunk was skipped as empty and a later chunk was loaded.
C9_Witness ==
    \E m, n \in 1..Len(log) :
        /\ m < n
        /\ log[m].skipped /\ log[m].read > 0
        /\ ~log[n].skipped /\ log[n].committed # {}

\* C10: outside the loop over the sub-batches no connection obtained by the
\* loader is still open.
C10_ConnectionsReleased == pc # "batch" => open_conns = 0

(* C11: when the download of the source file fails, the run ends before any
   chunk is read, cleaned or inserted: no chunk was processed, no connection
   was opened, the table is as it was and the verifier was not run. *)
C11_DownloadFailureAborts ==
    exc = "acquisition" =>
        /\ pc \in {"finally", "done"}
        /\ i = 0
        /\ log = <<>>
        /\ opened = 0
        /\ table = <<>>
        /\ verified = 0
        /\ cnt = -1

C11_Witness ==
    /\ pc = "done"
    /\ exc = "acquisition"
    /\ NumRows > 0
    /\ exit_status = 1

\* the chunks a source of NumRows rows falls into, and the rows of the n-th
NumChunks == (NumRows + args.chunksize - 1) \div args.chunksize

RowsOfChunk(n) == {x \in 1..NumRows : (n - 1) * args.chunksize < x /\ x <= n * args.chunksize}

(* C12: chunks are processed one at a time in source order, each one through
   clean, map and load before the next one is read, and the verifier runs
   once, only after every chunk of the source was processed. *)
C12_ChunksInOrderThenVerify ==
    /\ \A n \in 1..Len(log) :
          /\ log[n].chunk = n - 1
          /\ log[n].read = Cardinality(RowsOfChunk(n))
          /\ \A x \in 1..Len(log[n].ids) : log[n].ids[x] \in RowsOfChunk(n)
    /\ pc \in {"read", "batch"} => Len(log) = i
    /\ \A t \in 1..Len(table) :
          /\ table[t].id <= (IF pc = "batch" THEN i + 1 ELSE Len(log)) * args.chunksize
          /\ t > 1 => table[t - 1].id < table[t].id
    /\ verified <= 1
    /\ verified = 1 => pc \in {"finally", "done"} /\ Len(log) = NumChunks
    /\ pc \in {"start", "download", "read", "batch", "verify"} => verified = 0
    /\ pc = "done" /\ exc = "none" => verified = 1

C12_Witness ==
    /\ pc = "done"
    /\ exc = "none"
    /\ verified = 1
    /\ Len(log) = 2
    /\ NumRows = 3
    /\ \E n \in 1..Len(log) : log[n].skipped
    /\ Len(table) = 2

(* C13: running the ingestion twice on the same source without clearing the
   table, every sub-batch succeeding in both runs, leaves twice the rows of
   a single run: the second run inserts the same number again, nothing is
   deduplicated. *)
C13_SecondRunDoubles ==
    run = 2 /\ pc = "done" /\ run1.clean /\ CleanRun =>
        /\ Len(table) = 2 * run1.rows
        /\ total_rows = run1.rows
        /\ cnt = 2 * run1.rows

C13_Witness ==
    /\ run = 2
    /\ pc = "done"
    /\ run1.clean
    /\ CleanRun
    /\ run1.rows = 2
    /\ Len(table) = 4
    /\ Len(log) = 2

(* C14: apply_version is idempotent: a call for a version already recorded in
   schema_versions executes none of the version's statements, leaves the
   ledger (and the schema) as they were and returns False, so no version is
   applied more than once over any sequence of calls. *)
C14_RecordedVersionSkipped ==
    /\ dcall.result # "none" /\ dcall.recorded =>
          /\ dcall.executed = <<>>
          /\ ledger = dcall.ledger0
          /\ schema = dcall.schema0
          /\ dcall.result # "True"
          /\ dcall.lookup = "ok" => dcall.result = "False"
    /\ \A v \in Versions : applied[v] <= 1

C14_Witness ==
    /\ dcall.version = "v1_add_summary_table"
    /\ ddl[dcall.version] = DdlSummary
    /\ dcall.recorded
    /\ dcall.lookup = "ok"
    /\ dcall.result = "False"
    /\ applied[dcall.version] = 1

(* C15: apply_version is transactional: the version is recorded exactly when
   all its statements were executed and committed; when a statement, the
   ledger insert or the commit fails it returns False, the version is not
   recorded and nothing executed before the failure remains in effect. *)
C15_FailedApplyLeavesNothing ==
    dcall.result # "none" /\ dcall.lookup = "ok" /\ ~dcall.recorded =>
        /\ dcall.version \in ledger <=>
               dcall.result = "True" /\ dcall.executed = Statements(ddl[dcall.version])
        /\ dcall.result = "False" => ledger = dcall.ledger0
        /\ dcall.result = "False" => schema = dcall.schema0 \cup {"schema_versions"}

\* the k most recent of a set of backup files, by the time they were taken
MostRecent(S, k) == {f \in S : Cardinality({g \in S : g.t > f.t}) < k}

(* C16 as stated: after a call of make_backup(outdir, keep) that returned,
   the backup files number at most keep and are exactly the keep most
   recent ones by the timestamp of their names. *)
C16_ExactlyKeepMostRecent ==
    bcall.returned =>
        /\ Cardinality(backups) <= bcall.keep
        /\ backups = MostRecent(bcall.written, bcall.keep)

(* C16 as the code has it: after a call that returned, the files are the
   keep most recent ones together with the older ones whose removal failed;
   none of the keep most recent was removed, and when no removal failed the
   files number at most keep and are exactly the keep most recent. *)
C16_KeepMostRecentUnlessRemoveFails ==
    bcall.returned =>
        /\ backups = MostRecent(bcall.written, bcall.keep) \cup bcall.failed
        /\ bcall.removed \cap MostRecent(bcall.written, bcall.keep) = {}
        /\ bcall.failed \cap MostRecent(bcall.written, bcall.keep) = {}
        /\ Cardinality(backups) <= bcall.keep + Cardinality(bcall.failed)

C16_Witness ==
    /\ bcall.returned
    /\ bcall.keep = 1
    /\ Cardinality(bcall.written) = 3
    /\ Cardinality(bcall.removed) = 1
    /\ Cardinality(bcall.failed) = 1
    /\ Cardinality(backups) = 2

(* C18: rotation never deletes the backup of a successful dump in favour of
   a placeholder or a partial file: a dump is removed only when at least
   keep newer dumps exist. *)
C18_RotationSparesRealBackups ==
    bcall.returned =>
        \A f \in bcall.removed :
            f.kind = "dump" =>
                Cardinality({g \in bcall.written : g.kind = "dump" /\ g.t > f.t}) >= bcall.keep

\* a cell as read from the file holds a timestamp / a negative number
RawTimestamp(c) ==
    \/ c.k \in {"ts", "num"}
    \/ c.k = "str" /\ c.s \in {"2021-01-01T00:00", "2021-01-01T00:10",
                                "2021-01-01T01:00", "2021-01-01T01:05"}

RawNegative(c) == (c.k = "num" /\ c.n < 0) \/ (c.k = "str" /\ c.s \in {"-5", "-1"})

Survives(r) ==
    /\ RawTimestamp(Cell(source, r, "pickup_datetime"))
    /\ RawTimestamp(Cell(source, r, "dropoff_datetime"))
    /\ \A c \in {"fare_amount", "trip_distance", "passenger_count"} :
          ~RawNegative(Cell(source, r, c))

RowIds(rows) == [x \in 1..Len(rows) |-> rows[x].id]

(* C17: clean_chunk returns exactly the input rows, in source order and none
   added, whose two timestamps parse and whose fare_amount, trip_distance
   and passenger_count hold no negative value, a missing or unparseable one
   of these counting as 0; so the cleaned count is at most the original. *)
C17_ExactlySurvivingRows ==
    pc = "cleaned" =>
        /\ RowIds(df.rows) = RowIds(SelectSeq(source.rows, Survives))
        /\ Len(df.rows) <= Len(source.rows)

C17_Witness ==
    /\ pc = "cleaned"
    /\ Len(source.rows) = 3
    /\ source.rows[1].v = RowMissingFare
    /\ source.rows[2].v = RowBadPickup
    /\ source.rows[3].v = RowValid
    /\ RowIds(df.rows) = <<1, 3>>

====
